---- MODULE Spec2Model ----
(***************************************************************************)
(* Model of drivers/platform/chrome/wilco_ec/debugfs.c (Linux 5.1.5): the  *)
(* debugfs attribute "raw" of the Wilco EC.  A write parses a hexadecimal  *)
(* sentence, sends it through the EC mailbox and stores the response; a    *)
(* read formats the stored response once.                                  *)
(*                                                                         *)
(* Characters and bytes are integers 0..255 (ASCII codes).  A C buffer is  *)
(* a sequence holding the bytes up to its last non-NUL byte; every byte    *)
(* beyond is NUL, as devm_kzalloc() left it.  Offsets are 0-based as in C. *)
(***************************************************************************)
EXTENDS Integers, Sequences, FiniteSets, TLC

\* ------------------------------------------------------------------------
\* Program constants
\* ------------------------------------------------------------------------
EC_MAILBOX_DATA_SIZE == 32
EC_MAILBOX_DATA_SIZE_EXTENDED == 256
WILCO_EC_FLAG_EXTENDED_DATA == 2
WILCO_EC_FLAG_RAW == 12
WILCO_EC_MSG_TELEMETRY_LONG == 246
FORMATTED_BUFFER_SIZE == EC_MAILBOX_DATA_SIZE_EXTENDED * 4
MAX_WORD_SIZE == 16
TYPE_AND_DATA_SIZE == EC_MAILBOX_DATA_SIZE + 2
EINVAL == 22
ERANGE == 34
EIO == 5

\* ------------------------------------------------------------------------
\* Bounds of the model
\* ------------------------------------------------------------------------
\* number of write()/read() calls issued in one behaviour
MaxOps == 3

\* ------------------------------------------------------------------------
\* C buffers
\* ------------------------------------------------------------------------
Min(a, b) == IF a < b THEN a ELSE b
Max(a, b) == IF a > b THEN a ELSE b

\* the byte at 0-based offset i of a buffer
At(buf, i) == IF i < Len(buf) THEN buf[i + 1] ELSE 0

RECURSIVE Trim(_)
\* canonical form of a buffer: trailing NUL bytes are not stored
Trim(buf) ==
  IF buf = << >> THEN << >>
  ELSE IF buf[Len(buf)] = 0 THEN Trim(SubSeq(buf, 1, Len(buf) - 1))
  ELSE buf

\* memcpy(buf + off, data, Len(data))
Store(buf, off, data) ==
  Trim([i \in 1..Max(Len(buf), off + Len(data)) |->
          IF i - 1 >= off /\ i - 1 < off + Len(data)
          THEN data[i - off] ELSE At(buf, i - 1)])

\* memset(buf, 0, n)
Zero(buf, n) ==
  IF n >= Len(buf) THEN << >>
  ELSE Trim([i \in 1..Len(buf) |-> IF i <= n THEN 0 ELSE buf[i]])

\* the n bytes of buf from 0-based offset off
Slice(buf, off, n) == [i \in 1..n |-> At(buf, off + i - 1)]

\* ------------------------------------------------------------------------
\* Kernel library routines used by the driver
\* ------------------------------------------------------------------------
\* <linux/ctype.h>: white space of the kernel's _ctype table
isspace(c) == c \in {9, 10, 11, 12, 13, 32, 160}

\* isascii(c) && isprint(c)
isprint(c) == c >= 32 /\ c <= 126

isxdigit(c) == (c >= 48 /\ c <= 57) \/ (c >= 97 /\ c <= 102) \/ (c >= 65 /\ c <= 70)

\* value of a hexadecimal digit
hex_to_bin(c) ==
  IF c >= 48 /\ c <= 57 THEN c - 48
  ELSE IF c >= 97 /\ c <= 102 THEN c - 87
  ELSE c - 55

\* hex_asc[n], n in 0..15
hex_asc(n) == IF n < 10 THEN 48 + n ELSE 87 + n

RECURSIVE BitOr(_, _)
\* a | b on non-negative integers
BitOr(a, b) ==
  IF a = 0 THEN b
  ELSE IF b = 0 THEN a
  ELSE 2 * BitOr(a \div 2, b \div 2) + (IF a % 2 = 1 \/ b % 2 = 1 THEN 1 ELSE 0)

RECURSIVE CStr(_)
\* the C string held in a char array: the bytes before the first NUL
CStr(s) ==
  IF s = << >> \/ s[1] = 0 THEN << >> ELSE << s[1] >> \o CStr(Tail(s))

RECURSIVE Digits(_)
\* the leading hexadecimal digits of s
Digits(s) ==
  IF s = << >> \/ ~isxdigit(s[1]) THEN << >> ELSE << s[1] >> \o Digits(Tail(s))

RECURSIVE HexValue(_, _)
\* the number denoted by a string of hexadecimal digits, most significant
\* first; every number above 255 is out of the range of a u8 and is given as 256
HexValue(ds, acc) ==
  IF ds = << >> THEN acc
  ELSE HexValue(Tail(ds), Min(acc * 16 + hex_to_bin(ds[1]), 256))

Drop(s, n) == SubSeq(s, n + 1, Len(s))

\* kstrtou8(s, 16, &res): 0 and the value, or a negative errno
kstrtou8(s) ==
  LET str == CStr(s)
      s1 == IF str # << >> /\ str[1] = 43 THEN Tail(str) ELSE str
      s2 == IF Len(s1) >= 2 /\ s1[1] = 48 /\ s1[2] \in {120, 88}
            THEN Drop(s1, 2) ELSE s1
      ds == Digits(s2)
      r1 == Drop(s2, Len(ds))
      r2 == IF r1 # << >> /\ r1[1] = 10 THEN Tail(r1) ELSE r1
      val == HexValue(ds, 0)
  IN  IF ds = << >> \/ r2 # << >> THEN [err |-> -EINVAL, val |-> 0]
      ELSE IF val > 255 THEN [err |-> -ERANGE, val |-> 0]
      ELSE [err |-> 0, val |-> val]

RECURSIVE HexBytes(_)
\* "xx xx xx ": two digits and a space for every byte
HexBytes(bytes) ==
  IF bytes = << >> THEN << >>
  ELSE << hex_asc(bytes[1] \div 16), hex_asc(bytes[1] % 16), 32 >> \o HexBytes(Tail(bytes))

\* hex_dump_to_buffer(buf, len, rowsize, 1, linebuf, linebuflen, true) for a
\* linebuf that the line fits in: the bytes stored in linebuf (with the
\* terminating NUL) and the returned length
hex_dump_to_buffer(buf, len, rowsize) ==
  LET n == Min(len, rowsize)
      ascii_column == rowsize * 2 + rowsize + 1
      hex == HexBytes(Slice(buf, 0, n))
      hx == IF n > 0 THEN SubSeq(hex, 1, Len(hex) - 1) ELSE << >>
      pad == [i \in 1..(ascii_column - Len(hx)) |-> 32]
      asc == [i \in 1..n |-> IF isprint(At(buf, i - 1)) THEN At(buf, i - 1) ELSE 46]
      line == IF n = 0 THEN << >> ELSE hx \o pad \o asc
  IN  [linebuf |-> line \o << 0 >>, ret |-> Len(line)]

\* simple_write_to_buffer(to, available, ppos, from, count)
simple_write_to_buffer(to, available, pos, from) ==
  LET count == Len(from)
      n == Min(count, available - pos)
  IN  IF pos < 0 THEN [ret |-> -EINVAL, to |-> to, pos |-> pos]
      ELSE IF pos >= available \/ count = 0 THEN [ret |-> 0, to |-> to, pos |-> pos]
      ELSE [ret |-> n, to |-> Store(to, pos, SubSeq(from, 1, n)), pos |-> pos + n]

\* simple_read_from_buffer(to, count, ppos, from, available)
simple_read_from_buffer(count, pos, from, available) ==
  LET n == Min(count, available - pos)
  IN  IF pos < 0 THEN [ret |-> -EINVAL, to |-> << >>, pos |-> pos]
      ELSE IF pos >= available \/ count = 0 THEN [ret |-> 0, to |-> << >>, pos |-> pos]
      ELSE [ret |-> n, to |-> Slice(from, pos, n), pos |-> pos + n]

\* ------------------------------------------------------------------------
\* parse_hex_sentence
\* ------------------------------------------------------------------------
\* the search for the next word that steps over one character of white space
SkipSpaces_One(in, isize, word_start) ==
  IF word_start < isize /\ isspace(At(in, word_start)) THEN word_start + 1 ELSE word_start

RECURSIVE SkipSpaces(_, _, _)
\* while (word_start < isize && isspace(in[word_start])) word_start++;
SkipSpaces(in, isize, word_start) ==
  IF word_start < isize /\ isspace(At(in, word_start))
  THEN SkipSpaces(in, isize, word_start + 1) ELSE word_start

RECURSIVE WordEnd(_, _, _)
\* while (word_end < isize && !isspace(in[word_end])) word_end++;
WordEnd(in, isize, word_end) ==
  IF word_end < isize /\ ~isspace(At(in, word_end))
  THEN WordEnd(in, isize, word_end + 1) ELSE word_end

RECURSIVE ParseLoop(_, _, _, _, _)
\* the while loop of parse_hex_sentence from the state (word_start, out)
ParseLoop(in, isize, osize, word_start, out) ==
  IF ~(word_start < isize /\ Len(out) < osize) THEN [ret |-> Len(out), out |-> out]
  ELSE
    LET ws == SkipSpaces(in, isize, word_start) IN
    IF ws >= isize THEN [ret |-> Len(out), out |-> out]
    ELSE
      LET word_end == WordEnd(in, isize, ws)
          word_len == word_end - ws
          tmp == Slice(in, ws, word_len) \o << 0 >>
          k == kstrtou8(tmp)
      IN  IF word_len > MAX_WORD_SIZE THEN [ret |-> -EINVAL, out |-> out]
          ELSE IF k.err # 0 THEN [ret |-> -EINVAL, out |-> out]
          ELSE ParseLoop(in, isize, osize, word_end, Append(out, k.val))

\* parse_hex_sentence(in, isize, out, osize): the return value and the bytes
\* stored in out
parse_hex_sentence(in, isize, osize) == ParseLoop(in, isize, osize, 0, << >>)

\* wilco_ec_mailbox(ec, msg), the transport: every result it may produce for
\* msg out of the set resps of responses the controller may give.  A failure
\* is a negative errno and stores nothing; a success stores the response at
\* msg.response_data and returns its length, at most msg.response_size.
wilco_ec_mailbox(msg, resps) ==
  { [ret |-> -EIO, data |-> << >>] }
    \cup { [ret |-> Len(r), data |-> r] : r \in { x \in resps : Len(x) <= msg.response_size } }

\* ------------------------------------------------------------------------
\* Inputs: hexadecimal sentences written to raw, responses of the controller
\* ------------------------------------------------------------------------
\* "0 f0 1": type 0x00f0, command 0x01, no payload
S_legacy == << 48, 32, 102, 48, 32, 49 >>
\* "0 f6 2 3": type 0x00f6 (WILCO_EC_MSG_TELEMETRY_LONG), command 0x02, payload 03
S_telemetry == << 48, 32, 102, 54, 32, 50, 32, 51 >>
\* "ab CD 1 0 7": type 0xabcd, command 0x01, payload 00 07
S_raw == << 97, 98, 32, 67, 68, 32, 49, 32, 48, 32, 55 >>
\* "000 f0": two bytes only
S_short == << 48, 48, 48, 32, 102, 48 >>
\* "zz": not a hexadecimal number
S_badhex == << 122, 122 >>
\* a word of 17 digits
S_longword == [i \in 1..(MAX_WORD_SIZE + 1) |-> 48]
\* six blanks
S_blank == [i \in 1..6 |-> 32]
\* the empty text
S_empty == << >>
\* more text than the buffer holds
S_toolarge == [i \in 1..(FORMATTED_BUFFER_SIZE + 1) |-> 32]
\* "0 f6 1 1 ... 1": type 0x00f6 and 34 words more, two more than
\* request_data holds
S_manywords == << 48, 32, 102, 54 >> \o [i \in 1..68 |-> IF i % 2 = 1 THEN 32 ELSE 49]

\* the sentences by name: a behaviour carries the names, Text gives the characters
SentenceText ==
  ("0 f0 1" :> S_legacy) @@ ("0 f6 2 3" :> S_telemetry) @@ ("ab CD 1 0 7" :> S_raw) @@
  ("000 f0" :> S_short) @@ ("zz" :> S_badhex) @@ ("0 x 17" :> S_longword) @@
  ("blank x 6" :> S_blank) @@ ("empty" :> S_empty) @@ ("blank x 1025" :> S_toolarge) @@
  ("0 f6, 1 x 34" :> S_manywords)

Sentences == DOMAIN SentenceText

Text(s) == SentenceText[s]

\* ------------------------------------------------------------------------
\* Inputs of parse_hex_sentence: sentences made of words and white space
\* ------------------------------------------------------------------------
\* number of words of a sentence
MaxWords == 2
\* capacity of the output, besides TYPE_AND_DATA_SIZE
MaxOut == 2

\* the words by name: the characters, whether all of them are hexadecimal
\* digits, and the byte the word stands for (-1: none).  A word of only
\* hexadecimal digits stands for their value when it has at most 16 characters
\* and the value is at most 255; "0x1f", "+1" and "1", NUL, "z" stand for what
\* kstrtou8() reads in them.
Words ==
  ("0" :> [chars |-> << 48 >>, hex |-> TRUE, val |-> 0]) @@
  ("ff" :> [chars |-> << 102, 102 >>, hex |-> TRUE, val |-> 255]) @@
  ("0A" :> [chars |-> << 48, 65 >>, hex |-> TRUE, val |-> 10]) @@
  ("0000000000000007" :> [chars |-> << 48, 48, 48, 48, 48, 48, 48, 48, 48, 48, 48, 48, 48, 48, 48, 55 >>, hex |-> TRUE, val |-> 7]) @@
  ("zz" :> [chars |-> << 122, 122 >>, hex |-> FALSE, val |-> -1]) @@
  ("100" :> [chars |-> << 49, 48, 48 >>, hex |-> TRUE, val |-> -1]) @@
  ("00000000000000000" :> [chars |-> << 48, 48, 48, 48, 48, 48, 48, 48, 48, 48, 48, 48, 48, 48, 48, 48, 48 >>, hex |-> TRUE, val |-> -1]) @@
  ("0x1f" :> [chars |-> << 48, 120, 49, 102 >>, hex |-> FALSE, val |-> 31]) @@
  ("+1" :> [chars |-> << 43, 49 >>, hex |-> FALSE, val |-> 1]) @@
  ("1 NUL z" :> [chars |-> << 49, 0, 122 >>, hex |-> FALSE, val |-> 1])

WordNames == DOMAIN Words

\* the sentences of at most MaxWords words
WordSeqs == UNION { [1..n -> WordNames] : n \in 0..MaxWords }

\* white space before the first word, between two words and after the last
Layouts ==
  { [lead |-> << >>, sep |-> << 32 >>, trail |-> << >>],
    [lead |-> << 32, 32 >>, sep |-> << 9, 10, 32 >>, trail |-> << 10 >>],
    [lead |-> << 13 >>, sep |-> << 11, 12 >>, trail |-> << 32 >>] }

OutSizes == 0..MaxOut \cup { TYPE_AND_DATA_SIZE }

RECURSIVE JoinWords(_, _)
\* the words ws with sep between them
JoinWords(ws, sep) ==
  IF ws = << >> THEN << >>
  ELSE IF Len(ws) = 1 THEN Words[ws[1]].chars
  ELSE Words[ws[1]].chars \o sep \o JoinWords(Tail(ws), sep)

\* the text of the sentence of the words ws laid out as l
SentenceOf(ws, l) == l.lead \o JoinWords(ws, l.sep) \o l.trail

\* "12" and a NUL
R_three == << 49, 50, 0 >>
\* "A"
R_one == << 65 >>

Responses == { R_three, R_one }

\* as many bytes as raw_data holds
R_full == [i \in 1..EC_MAILBOX_DATA_SIZE_EXTENDED |-> 1]
\* no byte
R_none == << >>
\* "ABCDEFGHIJKLMNOPQ": one byte more than a line of the dump holds
R_long == [i \in 1..17 |-> 64 + i]

Callers == { "c1", "c2" }

\* ------------------------------------------------------------------------
\* State
\* ------------------------------------------------------------------------
VARIABLES
  callers,         \* the processes that use the attribute in this behaviour
  sentences,       \* the names of the texts they write
  responses,       \* the responses the controller gives
  response_size,   \* debug_info->response_size
  raw_data,        \* debug_info->raw_data
  formatted_data,  \* debug_info->formatted_data
  f_pos,           \* f_pos[p]: file position of p's open file
  pc,              \* pc[p]: where p is inside raw_write or raw_read
  frame,           \* frame[p]: the local variables of p's call
  call,            \* call[p]: what p's call in progress was given and did
  log,             \* the calls that have returned, in order of return
  parse            \* parse[p]: p's call of parse_hex_sentence, followed by iteration

vars == << callers, sentences, responses, response_size, raw_data, formatted_data,
           f_pos, pc, frame, call, log, parse >>

\* what the actions that take parse_hex_sentence as one step leave alone
config == << callers, sentences, responses, parse >>

NoMsg == [type |-> -1, flags |-> 0, command |-> 0, request_data |-> << >>,
          request_size |-> 0, response_size |-> 0]

NoResp == [ret |-> 0, data |-> << >>]

NoFrame == [count |-> 0, ppos |-> 0, kcount |-> 0, ret |-> 0, request_data |-> << >>,
            msg |-> NoMsg, fmt_len |-> 0, size |-> 0]

NoCall == [op |-> "none"]

\* the local variables of parse_hex_sentence (n_parsed is Len(out)), its
\* arguments, its return value, and the words the input was made of
NoParse == [pc |-> "none", in |-> << >>, isize |-> 0, osize |-> 0, word_start |-> 0,
            out |-> << >>, tmp |-> << >>, ret |-> 0, words |-> << >>]

\* the calls begun so far
Started == Len(log) + Cardinality({ p \in callers : pc[p] # "idle" })

\* the response a read would find: the first response_size bytes of raw_data
Session(data, size) == [data |-> Slice(data, 0, size), size |-> size]

\* what a call that begins now is given: the operation, the text, the file
\* position of the handle, how many calls had begun and how many had returned
\* before it began, and the session it finds
NewCall(p, op, text) ==
  [caller |-> p, op |-> op, text |-> text, ppos |-> f_pos[p],
   seq |-> Started, start |-> Len(log),
   mailbox |-> 0, msg |-> NoMsg, resp |-> NoResp, parsed |-> << >>,
   before |-> Session(raw_data, response_size)]

\* the system call returns ret to p with out copied to the user; ksys_write and
\* ksys_read store the advanced file position when ret >= 0.  The action that
\* returns sets raw_data' and response_size' first.
Return(p, c, ret, out, ppos) ==
  /\ pc' = [pc EXCEPT ![p] = "idle"]
  /\ frame' = [frame EXCEPT ![p] = NoFrame]
  /\ call' = [call EXCEPT ![p] = NoCall]
  /\ f_pos' = [f_pos EXCEPT ![p] = IF ret >= 0 THEN ppos ELSE @]
  /\ log' = Append(log, [caller |-> c.caller, op |-> c.op, text |-> c.text,
                         ppos |-> c.ppos, seq |-> c.seq, start |-> c.start,
                         mailbox |-> c.mailbox,
                         msg |-> c.msg, resp |-> c.resp, parsed |-> c.parsed,
                         before |-> c.before, after |-> Session(raw_data', response_size'),
                         ret |-> ret, out |-> out])

InitSession ==
  /\ response_size = 0
  /\ raw_data = << >>
  /\ formatted_data = << >>
  /\ f_pos = [p \in Callers |-> 0]
  /\ pc = [p \in Callers |-> "idle"]
  /\ frame = [p \in Callers |-> NoFrame]
  /\ call = [p \in Callers |-> NoCall]
  /\ log = << >>

\* no call of parse_hex_sentence is followed by iteration
InitNoParse == parse = [p \in Callers |-> NoParse]

\* one process
Init ==
  /\ InitSession
  /\ InitNoParse
  /\ callers = { "c1" }
  /\ sentences = Sentences \ { "0 f6, 1 x 34" }
  /\ responses = Responses

\* two processes, each with its own open file
InitConc ==
  /\ InitSession
  /\ InitNoParse
  /\ callers = Callers
  /\ sentences = { "0 f0 1", "zz" }
  /\ responses = Responses

\* one process, a controller that answers with 0, 1 or 17 bytes
InitLong ==
  /\ InitSession
  /\ InitNoParse
  /\ callers = { "c1" }
  /\ sentences = { "0 f0 1", "zz" }
  /\ responses = { R_none, R_one, R_long }

\* ------------------------------------------------------------------------
\* open
\* ------------------------------------------------------------------------
\* p closes its file and opens raw again: the new file starts at position 0
Open(p) ==
  /\ pc[p] = "idle"
  /\ f_pos[p] # 0
  /\ Started < MaxOps
  /\ f_pos' = [f_pos EXCEPT ![p] = 0]
  /\ UNCHANGED << config, response_size, raw_data, formatted_data, pc, frame, call, log >>

\* ------------------------------------------------------------------------
\* raw_write
\* ------------------------------------------------------------------------
\* simple_write_to_buffer without the size check before it
WriteCopy_NoSizeCheck(p, s) ==
  /\ pc[p] = "idle"
  /\ Started < MaxOps
  /\ UNCHANGED << config, response_size, raw_data >>
  /\ LET text == Text(s)
         count == Len(text)
         c == NewCall(p, "write", s)
         w == simple_write_to_buffer(formatted_data, FORMATTED_BUFFER_SIZE, f_pos[p], text)
     IN  IF w.ret < 0
         THEN /\ Return(p, c, w.ret, << >>, f_pos[p])
              /\ UNCHANGED formatted_data
         ELSE /\ formatted_data' = w.to
              /\ frame' = [frame EXCEPT ![p] = [NoFrame EXCEPT !.count = count,
                                                 !.ppos = w.pos, !.kcount = w.ret]]
              /\ call' = [call EXCEPT ![p] = c]
              /\ pc' = [pc EXCEPT ![p] = "w_parse"]
              /\ UNCHANGED << f_pos, log >>

\* the size check and simple_write_to_buffer
WriteCopy(p, s) ==
  /\ pc[p] = "idle"
  /\ Started < MaxOps
  /\ UNCHANGED << config, response_size, raw_data >>
  /\ LET text == Text(s)
         count == Len(text)
         c == NewCall(p, "write", s)
         w == simple_write_to_buffer(formatted_data, FORMATTED_BUFFER_SIZE, f_pos[p], text)
     IN  IF count > FORMATTED_BUFFER_SIZE
         THEN /\ Return(p, c, -EINVAL, << >>, f_pos[p])
              /\ UNCHANGED formatted_data
         ELSE IF w.ret < 0
         THEN /\ Return(p, c, w.ret, << >>, f_pos[p])
              /\ UNCHANGED formatted_data
         ELSE /\ formatted_data' = w.to
              /\ frame' = [frame EXCEPT ![p] = [NoFrame EXCEPT !.count = count,
                                                 !.ppos = w.pos, !.kcount = w.ret]]
              /\ call' = [call EXCEPT ![p] = c]
              /\ pc' = [pc EXCEPT ![p] = "w_parse"]
              /\ UNCHANGED << f_pos, log >>

\* parse_hex_sentence and the check for three bytes
WriteParse(p) ==
  /\ pc[p] = "w_parse"
  /\ UNCHANGED << config, response_size, raw_data, formatted_data >>
  /\ LET r == parse_hex_sentence(formatted_data, frame[p].kcount, TYPE_AND_DATA_SIZE)
         c == [call[p] EXCEPT !.parsed = r.out]
     IN  IF r.ret < 0 THEN Return(p, c, r.ret, << >>, frame[p].ppos)
         ELSE IF r.ret < 3 THEN Return(p, c, -EINVAL, << >>, frame[p].ppos)
         ELSE /\ frame' = [frame EXCEPT ![p].ret = r.ret, ![p].request_data = r.out]
              /\ call' = [call EXCEPT ![p] = c]
              /\ pc' = [pc EXCEPT ![p] = "w_clear"]
              /\ UNCHANGED << f_pos, log >>

\* BuildMsg without the branch for telemetry commands
BuildMsg_NoExtended(request_data, ret) ==
  [type |-> request_data[1] * 256 + request_data[2],
   flags |-> WILCO_EC_FLAG_RAW,
   command |-> request_data[3],
   request_data |-> IF ret > 3 THEN SubSeq(request_data, 4, ret) ELSE << >>,
   request_size |-> ret - 3,
   response_size |-> EC_MAILBOX_DATA_SIZE]

\* BuildMsg with the payload taken from request_data + 2
BuildMsg_PayloadOffByOne(request_data, ret) ==
  LET type == request_data[1] * 256 + request_data[2]
      extended == (type = WILCO_EC_MSG_TELEMETRY_LONG)
  IN  [type |-> type,
       flags |-> IF extended THEN BitOr(WILCO_EC_FLAG_RAW, WILCO_EC_FLAG_EXTENDED_DATA)
                 ELSE WILCO_EC_FLAG_RAW,
       command |-> request_data[3],
       request_data |-> IF ret > 3 THEN SubSeq(request_data, 3, ret - 1) ELSE << >>,
       request_size |-> ret - 3,
       response_size |-> IF extended THEN EC_MAILBOX_DATA_SIZE_EXTENDED
                         ELSE EC_MAILBOX_DATA_SIZE]

\* the message raw_write builds from the ret bytes parsed into request_data
BuildMsg(request_data, ret) ==
  LET type == request_data[1] * 256 + request_data[2]
      extended == (type = WILCO_EC_MSG_TELEMETRY_LONG)
  IN  [type |-> type,
       flags |-> IF extended THEN BitOr(WILCO_EC_FLAG_RAW, WILCO_EC_FLAG_EXTENDED_DATA)
                 ELSE WILCO_EC_FLAG_RAW,
       command |-> request_data[3],
       request_data |-> IF ret > 3 THEN SubSeq(request_data, 4, ret) ELSE << >>,
       request_size |-> ret - 3,
       response_size |-> IF extended THEN EC_MAILBOX_DATA_SIZE_EXTENDED
                         ELSE EC_MAILBOX_DATA_SIZE]

\* memset of raw_data, and the message
WriteClear(p) ==
  /\ pc[p] = "w_clear"
  /\ raw_data' = Zero(raw_data, EC_MAILBOX_DATA_SIZE_EXTENDED)
  /\ frame' = [frame EXCEPT ![p].msg = BuildMsg(frame[p].request_data, frame[p].ret)]
  /\ pc' = [pc EXCEPT ![p] = "w_mailbox"]
  /\ UNCHANGED << config, response_size, formatted_data, f_pos, call, log >>

\* wilco_ec_mailbox and the check of its result
WriteMailbox(p) ==
  /\ pc[p] = "w_mailbox"
  /\ UNCHANGED << config, response_size, formatted_data >>
  /\ \E x \in wilco_ec_mailbox(frame[p].msg, responses) :
       LET c == [call[p] EXCEPT !.mailbox = @ + 1, !.msg = frame[p].msg, !.resp = x]
       IN  IF x.ret < 0
           THEN /\ UNCHANGED raw_data
                /\ Return(p, c, x.ret, << >>, frame[p].ppos)
           ELSE /\ raw_data' = Store(raw_data, 0, x.data)
                /\ frame' = [frame EXCEPT ![p].ret = x.ret]
                /\ call' = [call EXCEPT ![p] = c]
                /\ pc' = [pc EXCEPT ![p] = "w_store"]
                /\ UNCHANGED << f_pos, log >>

\* response_size = ret; return count
WriteStore(p) ==
  /\ pc[p] = "w_store"
  /\ response_size' = frame[p].ret
  /\ UNCHANGED << config, raw_data, formatted_data >>
  /\ Return(p, call[p], frame[p].count, << >>, frame[p].ppos)

\* ------------------------------------------------------------------------
\* raw_read
\* ------------------------------------------------------------------------
\* every read asks for as much as the buffer holds
ReadCount == FORMATTED_BUFFER_SIZE

\* fmt_len = 0 and the test of response_size
ReadTest(p) ==
  /\ pc[p] = "idle"
  /\ Started < MaxOps
  /\ frame' = [frame EXCEPT ![p] = [NoFrame EXCEPT !.count = ReadCount,
                                     !.ppos = f_pos[p], !.size = response_size]]
  /\ call' = [call EXCEPT ![p] = NewCall(p, "read", "")]
  /\ pc' = [pc EXCEPT ![p] = IF response_size # 0 THEN "r_format" ELSE "r_copy"]
  /\ UNCHANGED << config, response_size, raw_data, formatted_data, f_pos, log >>

\* hex_dump_to_buffer; the length it is given is response_size as tested or
\* as read again
ReadFormat(p) ==
  /\ pc[p] = "r_format"
  /\ \E len \in { frame[p].size, response_size } :
       LET d == hex_dump_to_buffer(raw_data, len, 16)
       IN  /\ formatted_data' = Store(formatted_data, 0, d.linebuf)
           /\ frame' = [frame EXCEPT ![p].fmt_len = d.ret]
  /\ pc' = [pc EXCEPT ![p] = "r_clear"]
  /\ UNCHANGED << config, response_size, raw_data, f_pos, call, log >>

\* response_size = 0
ReadClear(p) ==
  /\ pc[p] = "r_clear"
  /\ response_size' = 0
  /\ pc' = [pc EXCEPT ![p] = "r_copy"]
  /\ UNCHANGED << config, raw_data, formatted_data, f_pos, frame, call, log >>

\* simple_read_from_buffer
ReadCopy(p) ==
  /\ pc[p] = "r_copy"
  /\ UNCHANGED << config, response_size, raw_data, formatted_data >>
  /\ LET r == simple_read_from_buffer(frame[p].count, frame[p].ppos, formatted_data,
                                      frame[p].fmt_len)
     IN  Return(p, call[p], r.ret, r.to, r.pos)

\* ------------------------------------------------------------------------
\* parse_hex_sentence, one iteration of its loop at a time
\* ------------------------------------------------------------------------
\* the loop without the limit of osize
LoopCondition_NoLimit(word_start, isize, n_parsed, osize) == word_start < isize

\* while (word_start < isize && n_parsed < osize)
LoopCondition(word_start, isize, n_parsed, osize) ==
  word_start < isize /\ n_parsed < osize

\* the limit of a word taken one too high
WordTooLong_OffByOne(word_len) == word_len > MAX_WORD_SIZE + 1

\* if (word_len > MAX_WORD_SIZE)
WordTooLong(word_len) == word_len > MAX_WORD_SIZE

\* the loop without its last statement
WordStartAfter_Stay(word_start, word_end) == word_start

\* word_start = word_end
WordStartAfter(word_start, word_end) == word_end

\* the call parse_hex_sentence(in, isize, out, osize) at its first statement
ParseCall(in, isize, osize) ==
  [NoParse EXCEPT !.pc = "loop", !.in = in, !.isize = isize, !.osize = osize]

\* the call s after the test of the loop and, if the test lets it, one
\* iteration of the loop
ParseStepOf(s) ==
  IF ~LoopCondition(s.word_start, s.isize, Len(s.out), s.osize)
  THEN [s EXCEPT !.pc = "done", !.ret = Len(s.out)]
  ELSE
    LET ws == SkipSpaces(s.in, s.isize, s.word_start) IN
    IF ws >= s.isize
    THEN [s EXCEPT !.pc = "done", !.word_start = ws, !.ret = Len(s.out)]
    ELSE
      LET word_end == WordEnd(s.in, s.isize, ws)
          word_len == word_end - ws
          tmp == Slice(s.in, ws, word_len) \o << 0 >>
          k == kstrtou8(tmp)
      IN  IF WordTooLong(word_len)
          THEN [s EXCEPT !.pc = "done", !.word_start = ws, !.ret = -EINVAL]
          ELSE IF k.err # 0
          THEN [s EXCEPT !.pc = "done", !.word_start = ws, !.tmp = tmp, !.ret = -EINVAL]
          ELSE [s EXCEPT !.word_start = WordStartAfter(ws, word_end), !.tmp = tmp,
                         !.out = Append(s.out, k.val)]

\* p's call of parse_hex_sentence goes on
ParseIter(p) ==
  /\ parse[p].pc = "loop"
  /\ parse' = [parse EXCEPT ![p] = ParseStepOf(parse[p])]
  /\ UNCHANGED << callers, sentences, responses, response_size, raw_data, formatted_data,
                  f_pos, pc, frame, call, log >>

\* ------------------------------------------------------------------------
\* raw_write with parse_hex_sentence followed by iteration
\* ------------------------------------------------------------------------
\* raw_write calls parse_hex_sentence
WriteParseCall(p) ==
  /\ pc[p] = "w_parse"
  /\ parse' = [parse EXCEPT ![p] = ParseCall(formatted_data, frame[p].kcount,
                                              TYPE_AND_DATA_SIZE)]
  /\ pc' = [pc EXCEPT ![p] = "w_loop"]
  /\ UNCHANGED << callers, sentences, responses, response_size, raw_data, formatted_data,
                  f_pos, frame, call, log >>

\* parse_hex_sentence returns to raw_write; the check for three bytes
WriteParseReturn(p) ==
  /\ pc[p] = "w_loop"
  /\ parse[p].pc = "done"
  /\ UNCHANGED << config, response_size, raw_data, formatted_data >>
  /\ LET r == [ret |-> parse[p].ret, out |-> parse[p].out]
         c == [call[p] EXCEPT !.parsed = r.out]
     IN  IF r.ret < 0 THEN Return(p, c, r.ret, << >>, frame[p].ppos)
         ELSE IF r.ret < 3 THEN Return(p, c, -EINVAL, << >>, frame[p].ppos)
         ELSE /\ frame' = [frame EXCEPT ![p].ret = r.ret, ![p].request_data = r.out]
              /\ call' = [call EXCEPT ![p] = c]
              /\ pc' = [pc EXCEPT ![p] = "w_clear"]
              /\ UNCHANGED << f_pos, log >>

\* one process; a sentence of 36 words and one of a word of 17 characters; a
\* controller that answers with 1 or 256 bytes
InitSteps ==
  /\ InitSession
  /\ InitNoParse
  /\ callers = { "c1" }
  /\ sentences = { "0 f6, 1 x 34", "0 x 17" }
  /\ responses = { R_one, R_full }

\* ------------------------------------------------------------------------
\* Specifications
\* ------------------------------------------------------------------------
Next ==
  \/ \E p \in callers : Open(p)
  \/ \E p \in callers : \E s \in sentences : WriteCopy(p, s)
  \/ \E p \in callers : WriteParse(p)
  \/ \E p \in callers : WriteClear(p)
  \/ \E p \in callers : WriteMailbox(p)
  \/ \E p \in callers : WriteStore(p)
  \/ \E p \in callers : ReadTest(p)
  \/ \E p \in callers : ReadFormat(p)
  \/ \E p \in callers : ReadClear(p)
  \/ \E p \in callers : ReadCopy(p)

Spec == Init /\ [][Next]_vars

SpecConc == InitConc /\ [][Next]_vars

SpecLong == InitLong /\ [][Next]_vars

\* parse_hex_sentence alone: one call, of a sentence of WordSeqs in a layout
\* of Layouts, for an output of a capacity of OutSizes
InitParse ==
  /\ InitSession
  /\ callers = { "c1" }
  /\ sentences = { }
  /\ responses = { }
  /\ \E ws \in WordSeqs : \E l \in Layouts : \E osize \in OutSizes :
       parse = [p \in Callers |->
                  IF p = "c1"
                  THEN [ParseCall(SentenceOf(ws, l), Len(SentenceOf(ws, l)), osize)
                          EXCEPT !.words = ws]
                  ELSE NoParse]

\* a call in progress goes on, by a step other than ParseIter and ReadFormat
Progress(p) ==
  \/ WriteParseCall(p) \/ WriteParseReturn(p)
  \/ WriteClear(p) \/ WriteMailbox(p) \/ WriteStore(p)
  \/ ReadClear(p) \/ ReadCopy(p)

\* ParseIter is enabled
InLoop == \E p \in Callers : parse[p].pc = "loop"

\* ReadFormat is enabled
InFormat == \E p \in Callers : pc[p] = "r_format"

NextSteps ==
  \/ \E p \in callers : Open(p)
  \/ \E p \in callers : \E s \in sentences : WriteCopy(p, s)
  \/ \E p \in callers : WriteParseCall(p)
  \/ \E p \in callers : ParseIter(p)
  \/ \E p \in callers : WriteParseReturn(p)
  \/ \E p \in callers : WriteClear(p)
  \/ \E p \in callers : WriteMailbox(p)
  \/ \E p \in callers : WriteStore(p)
  \/ \E p \in callers : ReadTest(p)
  \/ \E p \in callers : ReadFormat(p)
  \/ \E p \in callers : ReadClear(p)
  \/ \E p \in callers : ReadCopy(p)

\* a system call that has begun runs on: the kernel schedules its process, and
\* wilco_ec_mailbox returns.  The last two conjuncts are weak fairness of
\* ParseIter and of ReadFormat, with InLoop and InFormat for ENABLED.
SpecSteps ==
  /\ InitSteps
  /\ [][NextSteps]_vars
  /\ WF_vars(\E p \in Callers : Progress(p))
  /\ ([]<>~InLoop \/ []<><<\E p \in Callers : ParseIter(p)>>_vars)
  /\ ([]<>~InFormat \/ []<><<\E p \in Callers : ReadFormat(p)>>_vars)

NextParse == \E p \in callers : ParseIter(p)

SpecParse == InitParse /\ [][NextParse]_vars

\* ------------------------------------------------------------------------
\* Vocabulary of the properties
\* ------------------------------------------------------------------------
\* what the text of a write denotes: the result of parsing the text itself
ParseText(s) == parse_hex_sentence(Text(s), Len(Text(s)), TYPE_AND_DATA_SIZE)

\* the formatted dump of a response of the transport
Format(resp) ==
  LET d == hex_dump_to_buffer(resp.data, resp.ret, 16) IN SubSeq(d.linebuf, 1, d.ret)

IsWrite(e) == e.op = "write"
IsRead(e) == e.op = "read"

\* a write that returned success
OkWrite(e) == IsWrite(e) /\ e.ret >= 0

\* a write that returned success after the transport gave a response of
\* non-zero length
Answered(e) == OkWrite(e) /\ e.mailbox = 1 /\ e.resp.ret > 0

\* a write whose transport call failed
TransportFailed(e) == IsWrite(e) /\ e.mailbox = 1 /\ e.resp.ret < 0

\* a write of a text with a word of more than 16 characters or an invalid
\* token, which returned the error
ParseFailed(e) ==
  /\ IsWrite(e)
  /\ Len(Text(e.text)) <= FORMATTED_BUFFER_SIZE
  /\ ParseText(e.text).ret < 0
  /\ e.ret < 0

\* a write of a text that parses to fewer than three bytes
TooShort(e) ==
  /\ IsWrite(e)
  /\ Len(Text(e.text)) <= FORMATTED_BUFFER_SIZE
  /\ ParseText(e.text).ret >= 0
  /\ ParseText(e.text).ret < 3

\* a write of a text that parses to at least three bytes
WellFormed(e) ==
  /\ IsWrite(e)
  /\ Len(Text(e.text)) <= FORMATTED_BUFFER_SIZE
  /\ ParseText(e.text).ret >= 3

\* the call of log entry j began after the call of entry i had returned
After(i, j) == log[j].start >= i

\* the calls of log entries i and j were in progress at the same time
Overlap(i, j) == i # j /\ ~After(i, j) /\ ~After(j, i)

\* what a read at file position ppos returns when it finds the session s and
\* runs alone
ReadOf(s, ppos) ==
  LET text == Format([data |-> s.data, ret |-> s.size])
  IN  simple_read_from_buffer(ReadCount, ppos, text, Len(text)).to

\* the requests given to the transport so far, each with the bytes it was built
\* from and the number of the call that sent it
Sent ==
  { [msg |-> c.msg, parsed |-> c.parsed, seq |-> c.seq] :
      c \in { call[p] : p \in { q \in callers : pc[q] = "w_store" } }
             \cup { log[i] : i \in { j \in 1..Len(log) : log[j].mailbox > 0 } } }

\* ------------------------------------------------------------------------
\* Properties
\* ------------------------------------------------------------------------
\* C1: with one caller, the read that follows a write answered with a
\* response of non-zero length returns the formatted dump of that response and
\* leaves response_size 0, and every later read returns nothing until a write
\* succeeds again.
C1_OneShot ==
  \A i \in 1..Len(log) :
    (Answered(log[i]) /\ i < Len(log) /\ IsRead(log[i + 1])) =>
      /\ log[i + 1].out = Format(log[i].resp)
      /\ log[i + 1].after.size = 0
      /\ \A j \in (i + 2)..Len(log) :
           (IsRead(log[j]) /\ \A k \in (i + 2)..(j - 1) : ~OkWrite(log[k])) =>
             log[j].out = << >>

\* C2: after a write whose text parses to at least three bytes and whose
\* transport call failed, no response is buffered (response_size is 0) and the
\* next read returns nothing, whatever was buffered before.
C2_TransportFailureIdle ==
  \A i \in 1..Len(log) :
    (WellFormed(log[i]) /\ TransportFailed(log[i])) =>
      /\ log[i].after.size = 0
      /\ (i < Len(log) /\ IsRead(log[i + 1]) /\ After(i, i + 1)) => log[i + 1].out = << >>

\* C3: a read that runs while a write of another caller runs, and no other
\* call does, returns what it would return of the session as it was when the
\* first of the two began, or of the session as the write left it.
C3_AtomicRead ==
  \A i \in 1..Len(log) : \A j \in 1..Len(log) :
    ( /\ IsRead(log[i]) /\ IsWrite(log[j]) /\ Overlap(i, j)
      /\ \A k \in 1..Len(log) \ { i, j } : After(k, i) /\ After(k, j) ) =>
      LET first == IF log[i].seq < log[j].seq THEN log[i] ELSE log[j]
      IN  log[i].out \in { ReadOf(first.before, log[i].ppos),
                           ReadOf(log[j].after, log[i].ppos) }

\* C4: a write that fails in parsing leaves the session as it found it:
\* after a write A that was answered and a write B that failed in parsing, a
\* read returns the formatted response of A.
C4_ParseFailureKeeps ==
  \A i \in 1..Len(log) :
    /\ ParseFailed(log[i]) => log[i].after = log[i].before
    /\ ( /\ i + 2 <= Len(log)
         /\ Answered(log[i]) /\ ParseFailed(log[i + 1]) /\ IsRead(log[i + 2]) ) =>
         log[i + 2].out = Format(log[i].resp)

\* C5: a write whose text parses to fewer than three bytes returns an error,
\* makes no transport call and leaves the session as it found it.
C5_TooShortRejected ==
  \A i \in 1..Len(log) :
    TooShort(log[i]) =>
      (log[i].ret < 0 /\ log[i].mailbox = 0 /\ log[i].after = log[i].before)

\* C6: of the reads that follow one answered write, at most one returns
\* anything.
C6_OneReader ==
  \A i \in 1..Len(log) :
    (Answered(log[i]) /\ \A k \in (i + 1)..Len(log) : IsRead(log[k]) /\ After(i, k)) =>
      Cardinality({ k \in (i + 1)..Len(log) : log[k].out # << >> }) <= 1

\* C7: when a write of one caller is answered, then a write of another caller
\* is answered, the read that follows returns the formatted response of the
\* second write.
C7_LastWriteWins ==
  \A i \in 1..(Len(log) - 2) :
    ( /\ OkWrite(log[i]) /\ OkWrite(log[i + 1]) /\ IsRead(log[i + 2])
      /\ log[i].caller # log[i + 1].caller
      /\ After(i, i + 1) /\ After(i + 1, i + 2) ) =>
      log[i + 2].out = Format(log[i + 1].resp)

\* C8: a write calls the transport once when its text parses to at least
\* three bytes and never otherwise, a read never calls it, and the error of a
\* failed transport call is the result of the write.
C8_TransportCalls ==
  \A i \in 1..Len(log) :
    /\ log[i].mailbox = (IF WellFormed(log[i]) THEN 1 ELSE 0)
    /\ TransportFailed(log[i]) => log[i].ret = log[i].resp.ret

\* C9: the request given to the transport declares EC_MAILBOX_DATA_SIZE and
\* no extended flag, unless its type is WILCO_EC_MSG_TELEMETRY_LONG: then it
\* declares EC_MAILBOX_DATA_SIZE_EXTENDED and sets the extended flag.
C9_ResponseCapacity ==
  \A c \in Sent :
    IF c.msg.type = WILCO_EC_MSG_TELEMETRY_LONG
    THEN /\ c.msg.response_size = EC_MAILBOX_DATA_SIZE_EXTENDED
         /\ c.msg.flags = WILCO_EC_FLAG_RAW + WILCO_EC_FLAG_EXTENDED_DATA
    ELSE /\ c.msg.response_size = EC_MAILBOX_DATA_SIZE
         /\ c.msg.flags = WILCO_EC_FLAG_RAW

\* reached: a request of type WILCO_EC_MSG_TELEMETRY_LONG has been sent after
\* a request of another type with another command and another payload
C9_Witness ==
  \E c \in Sent : \E d \in Sent :
    /\ c.msg.type = WILCO_EC_MSG_TELEMETRY_LONG
    /\ d.msg.type # WILCO_EC_MSG_TELEMETRY_LONG
    /\ d.msg.command # c.msg.command
    /\ d.msg.request_data # c.msg.request_data
    /\ d.seq < c.seq

\* C10: the request given to the transport for the parsed bytes b, n of them,
\* has type b[0] * 256 + b[1], command b[2] and as payload the n - 3 bytes
\* b[3..n-1].
C10_Framing ==
  \A c \in Sent :
    LET b == c.parsed
        n == Len(b)
    IN  /\ n >= 3
        /\ c.msg.type = b[1] * 256 + b[2]
        /\ c.msg.command = b[3]
        /\ c.msg.request_size = n - 3
        /\ c.msg.request_data = [k \in 1..(n - 3) |-> b[k + 3]]

\* reached: a request without payload and a request with a payload of two
\* bytes and a type above 255 have been sent
C10_Witness ==
  \E c \in Sent : \E d \in Sent :
    /\ Len(c.parsed) = 3 /\ c.msg.request_data = << >>
    /\ Len(d.parsed) = 5 /\ d.msg.request_size = 2
    /\ d.msg.type > 255

\* a write of more text than formatted_data holds
TooLarge(e) == IsWrite(e) /\ Len(Text(e.text)) > FORMATTED_BUFFER_SIZE

\* C12: a write of more than FORMATTED_BUFFER_SIZE characters returns an error
\* at its first step, before it copies or parses anything: it is never found
\* in progress, it has parsed nothing, it has not called the transport, and it
\* leaves the response and its length as it found them.
C12_TooLargeRejected ==
  /\ \A p \in callers : call[p].op # "none" => ~TooLarge(call[p])
  /\ \A i \in 1..Len(log) :
       TooLarge(log[i]) =>
         /\ log[i].ret < 0
         /\ log[i].parsed = << >>
         /\ log[i].mailbox = 0
         /\ log[i].after = log[i].before

\* reached: a write of more than FORMATTED_BUFFER_SIZE characters has returned
\* while the response of an earlier write was unread
C12_Witness ==
  \E i \in 1..Len(log) : TooLarge(log[i]) /\ log[i].ret < 0 /\ log[i].before.size > 0

\* a write that failed is among the first i - 1 calls that returned
AfterError(i) == \E k \in 1..(i - 1) : IsWrite(log[k]) /\ log[k].ret < 0

\* C13: after a write has failed, a write of a text that parses to at least
\* three bytes and that the transport answers with a response of non-zero
\* length succeeds and leaves that response buffered, the read that follows
\* returns the formatted dump of that response, and no read returns an error.
C13_NoErrorFatal ==
  \A i \in 1..Len(log) :
    /\ IsRead(log[i]) => log[i].ret >= 0
    /\ ( /\ AfterError(i) /\ WellFormed(log[i])
         /\ log[i].mailbox = 1 /\ log[i].resp.ret > 0 ) =>
         /\ log[i].ret >= 0
         /\ log[i].after = Session(log[i].resp.data, log[i].resp.ret)
         /\ (i < Len(log) /\ IsRead(log[i + 1])) => log[i + 1].out = Format(log[i].resp)

\* the last write before the call of log entry j that returned success
LastOkWrite(j) ==
  LET ok == { i \in 1..(j - 1) : OkWrite(log[i]) }
  IN  IF ok = { } THEN 0 ELSE CHOOSE i \in ok : \A k \in ok : k <= i

\* C18: a read at file position 0 that returns anything returns the formatted
\* dump of the bytes and the length that the transport gave to the last write
\* before it that returned success.
C18_ReadOfLastExchange ==
  \A j \in 1..Len(log) :
    (IsRead(log[j]) /\ log[j].ppos = 0 /\ log[j].out # << >>) =>
      /\ LastOkWrite(j) # 0
      /\ log[j].out = Format(log[LastOkWrite(j)].resp)

\* C19: whatever the file position of the handle, a write parses the text
\* it is given, and fails or calls the transport as that text demands, and a
\* read that finds a response returns its formatted dump from the first
\* character.
C19_PositionIndependent ==
  \A i \in 1..Len(log) :
    /\ (IsWrite(log[i]) /\ ~TooLarge(log[i])) =>
         /\ log[i].parsed = ParseText(log[i].text).out
         /\ log[i].mailbox = (IF ParseText(log[i].text).ret >= 3 THEN 1 ELSE 0)
    /\ (IsRead(log[i]) /\ log[i].before.size > 0) =>
         log[i].out = Format([data |-> log[i].before.data, ret |-> log[i].before.size])

\* the bytes of a response in lines of 16
Lines(resp) ==
  [k \in 1..((resp.ret + 15) \div 16) |->
     Slice(resp.data, 16 * (k - 1), Min(16, resp.ret - 16 * (k - 1)))]

\* part occurs in text
Contains(text, part) ==
  \E k \in 0..(Len(text) - Len(part)) : SubSeq(text, k + 1, k + Len(part)) = part

\* C11: the read at file position 0 that follows a write answered with L
\* bytes returns a text that holds, for each of the ceil(L/16) lines of 16
\* bytes of the response, the hexadecimal and ASCII dump of that line.
C11_RendersEveryByte ==
  \A i \in 1..(Len(log) - 1) :
    (Answered(log[i]) /\ IsRead(log[i + 1]) /\ log[i + 1].ppos = 0) =>
      \A k \in DOMAIN Lines(log[i].resp) :
        Contains(log[i + 1].out,
                 Format([data |-> Lines(log[i].resp)[k], ret |-> Len(Lines(log[i].resp)[k])]))

\* C16: after a write that returned success a response is buffered and
\* unread (response_size, which raw_read tests, is not 0), also when the
\* transport gave a response of length 0.
C16_SuccessHasResponse ==
  \A i \in 1..Len(log) : OkWrite(log[i]) => log[i].after.size > 0

\* ------------------------------------------------------------------------
\* Properties of parse_hex_sentence
\* ------------------------------------------------------------------------
\* the calls of parse_hex_sentence that have returned
Parsed == { parse[p] : p \in { q \in callers : parse[q].pc = "done" } }

\* the bytes the words ws stand for
ValuesOf(ws) == [i \in 1..Len(ws) |-> Words[ws[i]].val]

\* a word of hexadecimal digits only, at most 16 of them, of a value of at
\* most 255
HexWord(w) == Words[w].hex /\ Words[w].val >= 0

\* a word kstrtou8() reads a byte in: hexadecimal digits, which a "+" and
\* then "0x" may precede and a NUL with anything behind it may follow, at most
\* 16 characters in all, of a value of at most 255
ByteWord(w) == Words[w].val >= 0

\* the call as parse_hex_sentence taken in one step computes it
ParseAgrees ==
  \A s \in Parsed :
    LET r == parse_hex_sentence(s.in, s.isize, s.osize)
    IN  s.ret = r.ret /\ (r.ret >= 0 => s.out = r.out)

\* the claim of C14 for the valid words that Good tells
StopsAtCapacity(Good(_)) ==
  \A s \in Parsed :
    LET ws == s.words
        n == Min(Len(ws), s.osize)
    IN  /\ (Len(ws) >= s.osize /\ \A i \in 1..s.osize : Good(ws[i])) =>
              (s.ret = s.osize /\ s.out = SubSeq(ValuesOf(ws), 1, s.osize))
        /\ (\E i \in 1..n : ~Good(ws[i])) => s.ret < 0

C15_ParsesWords ==
  \A s \in Parsed :
    ((\A i \in 1..Len(s.words) : HexWord(s.words[i])) /\ Len(s.words) <= s.osize) =>
      (s.ret = Len(s.words) /\ s.out = ValuesOf(s.words))

\* reached: a call has returned the two values of a sentence of two different
\* words, one of them of 16 characters, that has white space before, after and
\* of more than one character between the words
C15_Witness ==
  \E s \in Parsed :
    /\ Len(s.words) = 2 /\ s.ret = 2
    /\ s.out[1] # s.out[2]
    /\ \E i \in 1..2 : Len(Words[s.words[i]].chars) = MAX_WORD_SIZE
    /\ isspace(s.in[1]) /\ isspace(s.in[s.isize])
    /\ s.isize >= Len(Words[s.words[1]].chars) + Len(Words[s.words[2]].chars) + 4

\* ------------------------------------------------------------------------
\* Properties of raw_write with parse_hex_sentence followed by iteration
\* ------------------------------------------------------------------------
\* the requests built so far: of the calls in progress and of those returned
Built ==
  { frame[p].msg : p \in { q \in callers : pc[q] \in { "w_mailbox", "w_store" } } }
    \cup { log[i].msg : i \in { j \in 1..Len(log) : log[j].mailbox > 0 } }

\* C17: parse_hex_sentence stores at most osize bytes, for raw_write at most
\* TYPE_AND_DATA_SIZE; tmp holds at most MAX_WORD_SIZE characters and the
\* NUL; the payload of a request has between 0 and EC_MAILBOX_DATA_SIZE bytes;
\* and, with a transport that returns at most msg.response_size bytes, the
\* response and response_size stay within EC_MAILBOX_DATA_SIZE_EXTENDED.
C17_BufferBounds ==
  /\ \A p \in callers :
       /\ Len(parse[p].out) <= parse[p].osize
       /\ pc[p] = "w_loop" => parse[p].osize = TYPE_AND_DATA_SIZE
       /\ Len(frame[p].request_data) <= TYPE_AND_DATA_SIZE
       /\ Len(parse[p].tmp) <= MAX_WORD_SIZE + 1
  /\ \A m \in Built :
       /\ m.request_size >= 0 /\ m.request_size <= EC_MAILBOX_DATA_SIZE
       /\ Len(m.request_data) = m.request_size
  /\ response_size >= 0 /\ response_size <= EC_MAILBOX_DATA_SIZE_EXTENDED
  /\ Len(raw_data) <= EC_MAILBOX_DATA_SIZE_EXTENDED

\* reached: a write of 36 words has sent the request of the first 34 bytes,
\* and the response of 256 bytes to another write is buffered
C17_Witness ==
  /\ \E i \in 1..Len(log) :
       /\ Len(log[i].parsed) = TYPE_AND_DATA_SIZE
       /\ log[i].msg.request_size = TYPE_AND_DATA_SIZE - 3
  /\ response_size = EC_MAILBOX_DATA_SIZE_EXTENDED
  /\ Len(raw_data) = EC_MAILBOX_DATA_SIZE_EXTENDED

\* a step of the loop of parse_hex_sentence ends the call or moves word_start
\* forward
LoopAdvances ==
  \A p \in Callers :
    (parse[p].pc = "loop" /\ parse'[p] # parse[p]) =>
      (parse'[p].pc = "done" \/ parse'[p].word_start > parse[p].word_start)

\* C20: every iteration of the loop of parse_hex_sentence ends the call or
\* moves word_start forward, every call of parse_hex_sentence returns, every
\* write and every read that has begun returns, given that the transport
\* returns, and no write calls the transport a second time.
C20_Terminates ==
  /\ [][LoopAdvances]_vars
  /\ \A p \in Callers : (parse[p].pc = "loop") ~> (parse[p].pc = "done")
  /\ \A p \in Callers : (pc[p] # "idle") ~> (pc[p] = "idle")
  /\ [](\A p \in Callers : call[p].op # "none" => call[p].mailbox <= 1)

\* reached: a write of 36 words has returned after its request was answered
C20_Witness ==
  \E i \in 1..Len(log) :
    /\ IsWrite(log[i]) /\ log[i].ret >= 0
    /\ Len(log[i].parsed) = TYPE_AND_DATA_SIZE
    /\ log[i].mailbox = 1

====
